---------------------------- MODULE Spec2Model ----------------------------
(***************************************************************************)
(* A model of the maria-linalg crate: Matrix<N> (src/src/matrix.rs) and    *)
(* Vector<N> (src/src/vector.rs).                                          *)
(*                                                                         *)
(* An f64 is modelled as an exact rational with the IEEE-754 special       *)
(* values: a record [n, d] where                                           *)
(*     d > 0            the finite value n/d in lowest terms,              *)
(*     n = 0, d = -1    negative zero,                                     *)
(*     n = 1, d = 0     +infinity,   n = -1, d = 0   -infinity,            *)
(*     n = 0, d = 0     NaN.                                               *)
(* The operations follow IEEE-754 on the special values and on the sign of *)
(* zero; on finite values they are exact (rounding is not modelled).       *)
(***************************************************************************)
EXTENDS Integers, Sequences, FiniteSets, TLC

VARIABLES pc, self, matrix, vector, axis, angle, lower, upper,
          output, inverse, i, j, k, pivots

vars == <<pc, self, matrix, vector, axis, angle, lower, upper,
          output, inverse, i, j, k, pivots>>

\* The dimension: the const generic N, instantiated at 3 as in the crate's
\* tests and in Matrix::rotation.
N == 3

\* Vector entries and the entries of the operands of the products range
\* over -MaxVal..MaxVal.
MaxVal == 1

\* The diagonal entries of the inputs of inverse() range over -MaxDiag..MaxDiag.
MaxDiag == 1

\* The entries of a rotation axis range over -MaxAxis..MaxAxis.
MaxAxis == 2

\* The bounds given to check range over 0..MaxBound.
MaxBound == 1

Idx == 0..(N - 1)

\* The value of a variable that the operation under way does not use.
None == "None"

\* Option<f64>: None is the empty tuple, Some(x) the tuple <<x>>.
OptNone == <<>>
Some(x) == <<x>>

-----------------------------------------------------------------------------
(* f64 arithmetic *)

Abs(x) == IF x < 0 THEN -x ELSE x

RECURSIVE GCD(_, _)
GCD(a, b) == IF b = 0 THEN a ELSE GCD(b, a % b)

\* The finite value n/d, d > 0, in lowest terms.
Q(n, d) == LET g == GCD(Abs(n), d) IN [n |-> n \div g, d |-> d \div g]

\* An integer literal such as 1.0.
F(n) == [n |-> n, d |-> 1]

NaN == [n |-> 0, d |-> 0]
NegZero == [n |-> 0, d |-> -1]
Inf(neg) == [n |-> IF neg THEN -1 ELSE 1, d |-> 0]
Zero(neg) == IF neg THEN NegZero ELSE F(0)

IsNaN(x) == x.d = 0 /\ x.n = 0
IsInf(x) == x.d = 0 /\ x.n # 0
IsFinite(x) == x.d # 0
IsZero(x) == x.d # 0 /\ x.n = 0
IsNeg(x) == x.n < 0 \/ (x.n = 0 /\ x.d = -1)

\* The denominator of a finite value (1 for either zero).
Den(x) == Abs(x.d)

\* -x
FNeg(x) ==
    IF IsNaN(x) THEN NaN
    ELSE IF IsZero(x) THEN Zero(~IsNeg(x))
    ELSE [n |-> -x.n, d |-> x.d]

\* x * y
FMul(x, y) ==
    IF IsNaN(x) \/ IsNaN(y) THEN NaN
    ELSE IF IsInf(x) \/ IsInf(y)
         THEN IF IsZero(x) \/ IsZero(y) THEN NaN
              ELSE Inf(IsNeg(x) # IsNeg(y))
    ELSE IF x.n = 0 \/ y.n = 0 THEN Zero(IsNeg(x) # IsNeg(y))
    ELSE Q(x.n * y.n, x.d * y.d)

\* x + y
FAdd(x, y) ==
    IF IsNaN(x) \/ IsNaN(y) THEN NaN
    ELSE IF IsInf(x) /\ IsInf(y) THEN (IF x.n = y.n THEN x ELSE NaN)
    ELSE IF IsInf(x) THEN x
    ELSE IF IsInf(y) THEN y
    ELSE IF IsZero(x) /\ IsZero(y) THEN Zero(IsNeg(x) /\ IsNeg(y))
    ELSE LET s == x.n * Den(y) + y.n * Den(x)
         IN  IF s = 0 THEN F(0) ELSE Q(s, Den(x) * Den(y))

\* x - y
FSub(x, y) == FAdd(x, FNeg(y))

\* x / y
FDiv(x, y) ==
    IF IsNaN(x) \/ IsNaN(y) THEN NaN
    ELSE IF IsInf(x) THEN (IF IsInf(y) THEN NaN ELSE Inf(IsNeg(x) # IsNeg(y)))
    ELSE IF IsInf(y) THEN Zero(IsNeg(x) # IsNeg(y))
    ELSE IF IsZero(y) THEN (IF IsZero(x) THEN NaN ELSE Inf(IsNeg(x) # IsNeg(y)))
    ELSE IF IsZero(x) THEN Zero(IsNeg(x) # IsNeg(y))
    ELSE IF y.n > 0 THEN Q(x.n * y.d, x.d * y.n)
    ELSE Q(-(x.n * y.d), x.d * (-y.n))

\* x < y
FLt(x, y) ==
    IF IsNaN(x) \/ IsNaN(y) THEN FALSE
    ELSE IF IsInf(x) THEN x.n < 0 /\ ~(IsInf(y) /\ y.n < 0)
    ELSE IF IsInf(y) THEN y.n > 0
    ELSE x.n * Den(y) < y.n * Den(x)

\* x > y
FGt(x, y) == FLt(y, x)

\* x == y
FEq(x, y) ==
    IF IsNaN(x) \/ IsNaN(y) THEN FALSE
    ELSE IF IsZero(x) /\ IsZero(y) THEN TRUE
    ELSE x = y

-----------------------------------------------------------------------------
(* Matrix<N> *)

Matrix_zero == [r \in Idx |-> [c \in Idx |-> F(0)]]

identity == [r \in Idx |-> [c \in Idx |-> IF r = c THEN F(1) ELSE F(0)]]

\* #[derive(PartialEq)] on Matrix: entrywise f64 equality.
Matrix_eq(a, b) == \A r \in Idx : \A c \in Idx : FEq(a[r][c], b[r][c])

\* The inner loop of matmult: output[(r, c)] after kk iterations of k.
RECURSIVE matmult_k(_, _, _, _, _)
matmult_k(m, other, r, c, kk) ==
    IF kk = 0 THEN F(0)
    ELSE FAdd(matmult_k(m, other, r, c, kk - 1),
              FMul(m[r][kk - 1], other[kk - 1][c]))

\* matmult with the operands exchanged (self on the right): a fault that the
\* property of claim C5 must detect.
matmult_reversed(m, other) ==
    [r \in Idx |-> [c \in Idx |-> matmult_k(other, m, r, c, N)]]

matmult(m, other) == [r \in Idx |-> [c \in Idx |-> matmult_k(m, other, r, c, N)]]

swaprow(m, r1, r2) == [m EXCEPT ![r1] = m[r2], ![r2] = m[r1]]

scalerow(m, r, s) == [m EXCEPT ![r] = [c \in Idx |-> FMul(m[r][c], s)]]

\* subrow adding s times row r2 instead of subtracting it: a fault that the
\* property of claim C9 must detect.
subrow_added(m, r1, r2, s) ==
    [m EXCEPT ![r1] = [c \in Idx |-> FAdd(m[r1][c], FMul(s, m[r2][c]))]]

subrow(m, r1, r2, s) ==
    [m EXCEPT ![r1] = [c \in Idx |-> FSub(m[r1][c], FMul(s, m[r2][c]))]]

\* The pivot scan of inverse(): j after kk has run over r..(kk - 1).
RECURSIVE PivotScan(_, _, _)
PivotScan(m, r, kk) ==
    IF kk = r THEN r
    ELSE IF FGt(m[kk - 1][r], m[r][r]) THEN kk - 1
    ELSE PivotScan(m, r, kk - 1)

\* The pivot scale with a guard against a zero pivot (the row is then left
\* unscaled): the singularity handling that claim C6 says is absent.
PivotScale_guarded(m, r) ==
    IF IsZero(m[r][r]) THEN F(1) ELSE FDiv(F(1), m[r][r])

\* let s = 1.0 / output[(i, i)];
PivotScale(m, r) == FDiv(F(1), m[r][r])

\* Matrix::new on an array of rows (written as a tuple of tuples of integers).
Matrix_new(values) == [r \in Idx |-> [c \in Idx |-> F(values[r + 1][c + 1])]]

\* The inner loop of Matrix::mult: output[r] after jj iterations of j.
RECURSIVE Matrix_mult_j(_, _, _, _)
Matrix_mult_j(m, v, r, jj) ==
    IF jj = 0 THEN F(0)
    ELSE FAdd(Matrix_mult_j(m, v, r, jj - 1), FMul(m[r][jj - 1], v[jj - 1]))

Matrix_mult(m, v) == [r \in Idx |-> Matrix_mult_j(m, v, r, N)]

-----------------------------------------------------------------------------
(* Vector<N> *)

Vector_zero == [c \in Idx |-> F(0)]

\* Vector::new on an array (written as a tuple of integers).
Vector_new(values) == [c \in Idx |-> F(values[c + 1])]

\* #[derive(PartialEq)] on Vector: entrywise f64 equality.
Vector_eq(a, b) == \A c \in Idx : FEq(a[c], b[c])

scale(v, scalar) == [c \in Idx |-> FMul(scalar, v[c])]

Vector_add(a, b) == [c \in Idx |-> FAdd(a[c], b[c])]

\* The loop of dot: output after n iterations.
RECURSIVE dot_i(_, _, _)
dot_i(a, b, n) ==
    IF n = 0 THEN F(0)
    ELSE FAdd(dot_i(a, b, n - 1), FMul(a[n - 1], b[n - 1]))

dot(a, b) == dot_i(a, b, N)

\* The integer square root of a perfect square.
ISqrt(n) == CHOOSE r \in 0..n : r * r = n

\* f64::sqrt, on the values whose square root is rational.
FSqrt(x) ==
    IF IsNaN(x) THEN NaN
    ELSE IF IsZero(x) THEN x
    ELSE IF IsNeg(x) THEN NaN
    ELSE IF IsInf(x) THEN x
    ELSE Q(ISqrt(x.n), ISqrt(x.d))

\* self[i].powf(2.0)
Powf2(x) == FMul(x, x)

\* The loop of norm: output after n iterations.
RECURSIVE norm_i(_, _)
norm_i(v, n) ==
    IF n = 0 THEN F(0)
    ELSE FAdd(norm_i(v, n - 1), Powf2(v[n - 1]))

norm(v) == FSqrt(norm_i(v, N))

normalize(v) == scale(v, FDiv(F(1), norm(v)))

\* The inner loop of Vector::mult: output[r] after jj iterations of j.
RECURSIVE Vector_mult_j(_, _, _, _)
Vector_mult_j(v, m, r, jj) ==
    IF jj = 0 THEN F(0)
    ELSE FAdd(Vector_mult_j(v, m, r, jj - 1), FMul(m[r][jj - 1], v[jj - 1]))

Vector_mult(v, m) == [r \in Idx |-> Vector_mult_j(v, m, r, N)]

\* check rejecting a coordinate equal to a bound (<= and >= for < and >): a
\* fault that the property of claim C7 must detect.
RECURSIVE check_from_strict(_, _, _, _)
check_from_strict(v, lo, up, n) ==
    IF n = N THEN TRUE
    ELSE IF lo[n] # OptNone /\ ~FGt(v[n], lo[n][1]) THEN FALSE
    ELSE IF up[n] # OptNone /\ ~FLt(v[n], up[n][1]) THEN FALSE
    ELSE check_from_strict(v, lo, up, n + 1)

check_strict(v, lo, up) == check_from_strict(v, lo, up, 0)

\* The loop of check from index n on, with its early returns.
RECURSIVE check_from(_, _, _, _)
check_from(v, lo, up, n) ==
    IF n = N THEN TRUE
    ELSE IF lo[n] # OptNone /\ FLt(v[n], lo[n][1]) THEN FALSE
    ELSE IF up[n] # OptNone /\ FGt(v[n], up[n][1]) THEN FALSE
    ELSE check_from(v, lo, up, n + 1)

check(v, lo, up) == check_from(v, lo, up, 0)

\* Vector<3>::cross
cross(a, b) ==
    LET x == FSub(FMul(a[1], b[2]), FMul(a[2], b[1]))
        y == FSub(FMul(a[2], b[0]), FMul(a[0], b[2]))
        z == FSub(FMul(a[0], b[1]), FMul(a[1], b[0]))
    IN  [c \in 0..2 |-> IF c = 0 THEN x ELSE IF c = 1 THEN y ELSE z]

\* f64::cos and f64::sin, on angles whose cosine and sine are rational; an
\* angle is named by the pair <<numerator of cos, numerator of sin,
\* denominator>> of a point of the unit circle.
Cos(a) == Q(a[1], a[3])
Sin(a) == Q(a[2], a[3])

\* Vector<3>::rotate: Rodrigues' rotation formula.
rotate(v, ax, a) ==
    LET kk == normalize(ax)
    IN  Vector_add(Vector_add(scale(v, Cos(a)),
                              scale(kk, FMul(dot(v, kk), FSub(F(1), Cos(a))))),
                   scale(cross(kk, v), Sin(a)))

-----------------------------------------------------------------------------
(* Matrix<N>, the operations that use Vector<N> *)

\* The loops of decompose: basis after the first n of the N * N assignments
\* basis[j][i] = self[(i, j)], i the outer index and j the inner one.
RECURSIVE decompose_loop(_, _)
decompose_loop(m, n) ==
    IF n = 0 THEN [c \in Idx |-> Vector_zero]
    ELSE LET ii == (n - 1) \div N
             jj == (n - 1) % N
             b  == decompose_loop(m, n - 1)
         IN  [b EXCEPT ![jj][ii] = m[ii][jj]]

\* decompose returning the rows (basis[i][j] = self[(i, j)]): a fault that
\* the property of claim C4 must detect.
decompose_rows(m) == [r \in Idx |-> [c \in Idx |-> m[r][c]]]

decompose(m) == decompose_loop(m, N * N)

\* Vector::basis
basis == decompose(identity)

\* Matrix::rotation packing the rotated basis vectors as rows: a fault that
\* the property of claim C3 must detect.
rotation_by_rows(ax, a) ==
    LET rr == [c \in 0..2 |-> rotate(basis[c], ax, a)]
    IN  [r \in 0..2 |-> [c \in 0..2 |-> rr[r][c]]]

\* Matrix::rotation
rotation(ax, a) ==
    LET rr == [c \in 0..2 |-> rotate(basis[c], ax, a)]
    IN  [r \in 0..2 |-> [c \in 0..2 |-> rr[c][r]]]

-----------------------------------------------------------------------------
(* Matrix::inverse, one action per statement of its loops *)

\* The inputs of inverse(): every matrix whose off-diagonal entries are -1, 0
\* or 1 and whose diagonal entries (the pivots a scan starts from) are in
\* -MaxDiag..MaxDiag.
InputMatrices ==
    { m \in [Idx -> [Idx -> {F(x) : x \in (-MaxDiag)..MaxDiag} \cup {F(-1), F(0), F(1)}]] :
        \A r \in Idx : \A c \in Idx : r # c => m[r][c] \in {F(-1), F(0), F(1)} }

InitInverse ==
    /\ pc = "inverse"
    /\ self \in InputMatrices
    /\ matrix = None /\ vector = None /\ axis = None /\ angle = None
    /\ lower = None /\ upper = None
    /\ output = None /\ inverse = None
    /\ i = 0 /\ j = 0 /\ k = 0
    /\ pivots = <<>>

unchangedArgs == UNCHANGED <<self, matrix, vector, axis, angle, lower, upper>>

\* let mut output = *self; let mut inverse = Self::identity();
InverseBegin ==
    /\ pc = "inverse"
    /\ output' = self
    /\ inverse' = identity
    /\ i' = 0
    /\ pc' = IF N > 0 THEN "scan" ELSE "upper"
    /\ UNCHANGED <<j, k, pivots>>
    /\ unchangedArgs

\* for k in i..N { if output[(k, i)] > output[(i, i)] { j = k; } }
InverseScan ==
    /\ pc = "scan"
    /\ j' = PivotScan(output, i, N)
    /\ pc' = "swap"
    /\ UNCHANGED <<output, inverse, i, k, pivots>>
    /\ unchangedArgs

\* output.swaprow(i, j); inverse.swaprow(i, j);
InverseSwap ==
    /\ pc = "swap"
    /\ output' = swaprow(output, i, j)
    /\ inverse' = swaprow(inverse, i, j)
    /\ pc' = "normalize"
    /\ UNCHANGED <<i, j, k, pivots>>
    /\ unchangedArgs

\* The normalization applied to the working matrix only: a fault that the
\* property of claim C10 must detect.
InverseNormalize_unpaired ==
    /\ pc = "normalize"
    /\ output' = scalerow(output, i, PivotScale(output, i))
    /\ inverse' = inverse
    /\ pivots' = Append(pivots, output[i][i])
    /\ k' = i + 1
    /\ IF i + 1 < N
       THEN pc' = "eliminate" /\ i' = i
       ELSE pc' = "upper" /\ i' = i + 1
    /\ UNCHANGED j
    /\ unchangedArgs

\* let s = 1.0 / output[(i, i)]; output.scalerow(i, s); inverse.scalerow(i, s);
\* then the loop over the lower rows begins; it is empty for the last row,
\* where the first for i in 0..N ends ("We're now in upper triangular").
InverseNormalize ==
    /\ pc = "normalize"
    /\ LET s == PivotScale(output, i)
       IN  /\ output' = scalerow(output, i, s)
           /\ inverse' = scalerow(inverse, i, s)
    /\ pivots' = Append(pivots, output[i][i])
    /\ k' = i + 1
    /\ IF i + 1 < N
       THEN pc' = "eliminate" /\ i' = i
       ELSE pc' = "upper" /\ i' = i + 1
    /\ UNCHANGED j
    /\ unchangedArgs

\* for k in (i + 1)..N { let s = output[(k, i)]; output.subrow(k, i, s);
\* inverse.subrow(k, i, s); }, one iteration; after the last one the next
\* pivot step begins.
InverseEliminate ==
    /\ pc = "eliminate"
    /\ k < N
    /\ LET s == output[k][i]
       IN  /\ output' = subrow(output, k, i, s)
           /\ inverse' = subrow(inverse, k, i, s)
    /\ k' = k + 1
    /\ IF k + 1 < N
       THEN pc' = pc /\ i' = i
       ELSE pc' = "scan" /\ i' = i + 1
    /\ UNCHANGED <<j, pivots>>
    /\ unchangedArgs

\* The second for i in 0..N begins: the first (i, j) with j in (i + 1)..N.
InverseUpper ==
    /\ pc = "upper"
    /\ i' = 0
    /\ j' = 1
    /\ pc' = IF 1 < N THEN "back" ELSE "returned"
    /\ UNCHANGED <<output, inverse, k, pivots>>
    /\ unchangedArgs

\* for j in (i + 1)..N { let s = output[(i, j)]; output.subrow(i, j, s);
\* inverse.subrow(i, j, s); }, one iteration; after the last one of the last
\* row with columns to its right, inverse is returned.
InverseBack ==
    /\ pc = "back"
    /\ LET s == output[i][j]
       IN  /\ output' = subrow(output, i, j, s)
           /\ inverse' = subrow(inverse, i, j, s)
    /\ IF j + 1 < N THEN i' = i /\ j' = j + 1 /\ pc' = pc
       ELSE IF i + 2 < N THEN i' = i + 1 /\ j' = i + 2 /\ pc' = pc
       ELSE i' = N /\ j' = N /\ pc' = "returned"
    /\ UNCHANGED <<k, pivots>>
    /\ unchangedArgs

NextInverse ==
    \/ InverseBegin
    \/ InverseScan
    \/ InverseSwap
    \/ InverseNormalize
    \/ InverseEliminate
    \/ InverseUpper
    \/ InverseBack

SpecInverse == InitInverse /\ [][NextInverse]_vars

-----------------------------------------------------------------------------
(* Properties of Matrix::inverse *)

\* The determinant of an integer-valued matrix, by cofactor expansion along
\* the rows: DetRows(m, r, cols) is the minor of rows r..N-1 and columns cols.
RECURSIVE DetRows(_, _, _), DetSum(_, _, _, _)
DetRows(m, r, cols) == IF r = N THEN 1 ELSE DetSum(m, r, cols, 0)

DetSum(m, r, cols, c) ==
    IF c = N THEN 0
    ELSE (IF c \in cols
          THEN (IF Cardinality({x \in cols : x < c}) % 2 = 0 THEN 1 ELSE -1)
               * m[r][c].n * DetRows(m, r + 1, cols \ {c})
          ELSE 0) + DetSum(m, r, cols, c + 1)

Det(m) == DetRows(m, 0, Idx)

AllPivotsNonzero == \A p \in 1..Len(pivots) : ~IsZero(pivots[p])

\* C1: for every invertible matrix A, A.matmult(A.inverse()) is the identity
\* matrix.
C1_InverseIsTrueInverse ==
    (pc = "returned" /\ Det(self) # 0)
        => Matrix_eq(matmult(self, inverse), identity)

C8_PivotIsLargestLowestIndex ==
    (pc = "swap" /\ \A r \in i..(N - 1) : IsFinite(output[r][i]))
        => /\ \A r \in i..(N - 1) : ~FGt(output[r][i], output[j][i])
           /\ \A r \in i..(j - 1) : ~FEq(output[r][i], output[j][i])

C10_AccumulatorTracksWorking ==
    /\ []((pc \in {"scan", "swap", "normalize", "eliminate", "upper", "back", "returned"}
            /\ AllPivotsNonzero)
            => Matrix_eq(matmult(inverse, self), output))
    /\ [][self' = self]_vars

\* A returned inverse of a matrix that needed a row swap and a fractional
\* scale, every pivot nonzero.
C10_Witness ==
    /\ pc = "returned" /\ AllPivotsNonzero
    /\ FGt(self[1][0], self[0][0])
    /\ \E r \in Idx : \E c \in Idx : inverse[r][c].d > 1
    /\ Matrix_eq(output, identity)

-----------------------------------------------------------------------------
(* The products, decompose and basis *)

\* The matrices of the test matrix_multiply.
TestA == Matrix_new(<< <<1, 2, 3>>, <<4, 5, 6>>, <<7, 8, 9>> >>)
TestB == Matrix_new(<< <<9, 8, 7>>, <<6, 5, 4>>, <<3, 2, 1>> >>)
TestC == Matrix_new(<< <<30, 24, 18>>, <<84, 69, 54>>, <<138, 114, 90>> >>)

\* The columns the test decompose expects of TestA.
TestBasis == [c \in Idx |-> Vector_new(<< <<1, 4, 7>>, <<2, 5, 8>>, <<3, 6, 9>> >>[c + 1])]

\* The matrix operands: the zero matrix, the identity and the two test
\* matrices, each with one entry replaced by a value of -MaxVal..MaxVal.
Operands ==
    { [b EXCEPT ![rc[1]][rc[2]] = F(x)] :
        b \in {Matrix_zero, identity, TestA, TestB},
        rc \in Idx \X Idx,
        x \in (-MaxVal)..MaxVal }

\* The vector operands: every vector with entries in -MaxVal..MaxVal.
Vectors == [Idx -> {F(x) : x \in (-MaxVal)..MaxVal}]

noInverseState ==
    /\ inverse = None /\ i = 0 /\ j = 0 /\ k = 0 /\ pivots = <<>>

unchangedInverseState == UNCHANGED <<inverse, i, j, k, pivots>>

InitMatmult ==
    /\ pc = "call"
    /\ self \in Operands
    /\ matrix \in Operands
    /\ vector = None /\ axis = None /\ angle = None
    /\ lower = None /\ upper = None
    /\ output = None
    /\ noInverseState

\* self.matmult(matrix)
Matmult ==
    /\ pc = "call"
    /\ output' = matmult(self, matrix)
    /\ pc' = "matmult"
    /\ unchangedArgs
    /\ unchangedInverseState

SpecMatmult == InitMatmult /\ [][Matmult]_vars

InitMult ==
    /\ pc = "call"
    /\ self = None
    /\ matrix \in Operands
    /\ vector \in Vectors
    /\ axis = None /\ angle = None
    /\ lower = None /\ upper = None
    /\ output = None
    /\ noInverseState

\* matrix.mult(vector)
MatrixMult ==
    /\ pc = "call"
    /\ self' = matrix
    /\ output' = Matrix_mult(matrix, vector)
    /\ pc' = "Matrix::mult"
    /\ UNCHANGED <<matrix, vector, axis, angle, lower, upper>>
    /\ unchangedInverseState

\* vector.mult(matrix)
VectorMult ==
    /\ pc = "call"
    /\ self' = vector
    /\ output' = Vector_mult(vector, matrix)
    /\ pc' = "Vector::mult"
    /\ UNCHANGED <<matrix, vector, axis, angle, lower, upper>>
    /\ unchangedInverseState

NextMult == MatrixMult \/ VectorMult

SpecMult == InitMult /\ [][NextMult]_vars

InitDecompose ==
    /\ pc = "call"
    /\ self \in Operands
    /\ matrix = None /\ vector = None /\ axis = None /\ angle = None
    /\ lower = None /\ upper = None
    /\ output = None
    /\ noInverseState

\* self.decompose()
Decompose ==
    /\ pc = "call"
    /\ output' = decompose(self)
    /\ pc' = "decompose"
    /\ unchangedArgs
    /\ unchangedInverseState

\* Vector::basis()
Basis ==
    /\ pc = "call"
    /\ output' = basis
    /\ pc' = "basis"
    /\ unchangedArgs
    /\ unchangedInverseState

NextDecompose == Decompose \/ Basis

SpecDecompose == InitDecompose /\ [][NextDecompose]_vars

\* The sum f[0] + ... + f[n - 1] of integers.
RECURSIVE SumF(_, _)
SumF(f, n) == IF n = 0 THEN 0 ELSE SumF(f, n - 1) + f[n - 1]

\* C5: A.matmult(B) is the matrix product with A on the left,
\* result[(i, j)] = sum over k of A[(i, k)] * B[(k, j)]; the product of the
\* test's matrices is the test's result; neither operand is modified.
C5_MatmultIsProduct ==
    /\ [](pc = "matmult" =>
            /\ \A r \in Idx : \A c \in Idx :
                  output[r][c] =
                      F(SumF([kk \in Idx |-> self[r][kk].n * matrix[kk][c].n], N))
            /\ (self = TestA /\ matrix = TestB) => output = TestC)
    /\ [][self' = self /\ matrix' = matrix]_vars

\* The product of the test matrix_multiply, whose operands do not commute.
C5_Witness ==
    /\ pc = "matmult" /\ self = TestA /\ matrix = TestB /\ output = TestC
    /\ matmult(matrix, self) # output

Symmetric(m) == \A r \in Idx : \A c \in Idx : FEq(m[r][c], m[c][r])

\* C2: v.mult(M) is the row vector v times M,
\* output[i] = sum over j of v[j] * M[(j, i)]; it equals M.mult(v) when M is
\* symmetric, and for a non-symmetric M some v has v.mult(M) != M.mult(v).
C2_VectorMultIsRowTimesMatrix ==
    /\ pc = "Vector::mult" =>
          \A c \in Idx :
              output[c] = F(SumF([jj \in Idx |-> vector[jj].n * matrix[jj][c].n], N))
    /\ (pc = "Vector::mult" /\ Symmetric(matrix)) =>
          Vector_eq(output, Matrix_mult(matrix, vector))
    /\ (pc = "Vector::mult" /\ ~Symmetric(matrix)) =>
          \E v \in Vectors : ~Vector_eq(Vector_mult(v, matrix), Matrix_mult(matrix, v))

\* C4: decompose() returns the columns in order, result[j][i] = A[(i, j)], so
\* the returned vectors packed as columns are A again; the test's matrix
\* gives the test's columns; basis()[i][j] is 1 if i = j and 0 otherwise.
C4_DecomposeReturnsColumns ==
    /\ pc = "decompose" =>
          /\ \A r \in Idx : \A c \in Idx : output[c][r] = self[r][c]
          /\ [r \in Idx |-> [c \in Idx |-> output[c][r]]] = self
          /\ self = TestA => output = TestBasis
    /\ pc = "basis" =>
          \A r \in Idx : \A c \in Idx : output[r][c] = IF r = c THEN F(1) ELSE F(0)

\* The decomposition of the test decompose, of a matrix that is not symmetric.
C4_Witness ==
    /\ pc = "decompose" /\ self = TestA /\ output = TestBasis
    /\ ~Symmetric(self)

-----------------------------------------------------------------------------
(* Matrix::rotation and Vector::rotate *)

\* The axes: the vectors with entries in -MaxAxis..MaxAxis whose norm is
\* rational (the zero vector among them).
Axes ==
    { a \in [0..2 -> {F(x) : x \in (-MaxAxis)..MaxAxis}] :
        \E r \in 0..(2 * MaxAxis) : r * r = norm_i(a, 3).n }

\* The angles: 0, pi/2, pi, atan(4/3), -atan(3/4), -pi/2 + atan(5/12).
Angles == { <<1, 0, 1>>, <<0, 1, 1>>, <<-1, 0, 1>>, <<3, 4, 5>>, <<4, -3, 5>>,
            <<5, -12, 13>> }

InitRotation ==
    /\ pc = "call"
    /\ self = None
    /\ matrix = None
    /\ vector \in Vectors
    /\ axis \in Axes
    /\ angle \in Angles
    /\ lower = None /\ upper = None
    /\ output = None
    /\ noInverseState

\* vector.rotate(axis, angle)
Rotate ==
    /\ pc = "call"
    /\ self' = vector
    /\ output' = rotate(vector, axis, angle)
    /\ pc' = "rotate"
    /\ UNCHANGED <<matrix, vector, axis, angle, lower, upper>>
    /\ unchangedInverseState

\* Matrix::rotation(axis, angle)
Rotation ==
    /\ pc = "call"
    /\ self' = rotation(axis, angle)
    /\ pc' = "rotation"
    /\ UNCHANGED <<matrix, vector, axis, angle, lower, upper, output>>
    /\ unchangedInverseState

\* Matrix::rotation(axis, angle).mult(vector)
RotationMult ==
    /\ pc = "rotation"
    /\ output' = Matrix_mult(self, vector)
    /\ pc' = "rotation.mult"
    /\ unchangedArgs
    /\ unchangedInverseState

NextRotation == Rotate \/ Rotation \/ RotationMult

SpecRotation == InitRotation /\ [][NextRotation]_vars

NonzeroAxis == \E c \in 0..2 : ~IsZero(axis[c])

-----------------------------------------------------------------------------
(* Vector::check *)

\* The optional bounds: None, or Some of a value of 0..MaxBound.
Bounds == [Idx -> {OptNone} \cup {Some(F(x)) : x \in 0..MaxBound}]

\* lower = [Some(0), None, None], upper = [None, Some(5), None]
ScenarioLower == [c \in Idx |-> IF c = 0 THEN Some(F(0)) ELSE OptNone]
ScenarioUpper == [c \in Idx |-> IF c = 1 THEN Some(F(5)) ELSE OptNone]

InitCheck ==
    /\ pc = "call"
    /\ \/ self \in Vectors /\ lower \in Bounds /\ upper \in Bounds
       \/ /\ self \in {Vector_new(<<3, 10, -2>>), Vector_new(<<3, 4, -2>>)}
          /\ lower = ScenarioLower
          /\ upper = ScenarioUpper
    /\ matrix = None /\ vector = None /\ axis = None /\ angle = None
    /\ output = None
    /\ noInverseState

\* self.check(lower, upper)
Check ==
    /\ pc = "call"
    /\ output' = check(self, lower, upper)
    /\ pc' = "check"
    /\ unchangedArgs
    /\ unchangedInverseState

SpecCheck == InitCheck /\ [][Check]_vars

\* C7: v.check(lower, upper) is true iff for every index i, lower[i] is
\* absent or v[i] >= lower[i], and upper[i] is absent or v[i] <= upper[i].
\* With the scenario's bounds, [3, 10, -2] fails and [3, 4, -2] passes.
C7_CheckIffAllWithinBounds ==
    pc = "check" =>
        /\ output = (\A c \in Idx :
                        /\ lower[c] = OptNone \/ self[c].n >= lower[c][1].n
                        /\ upper[c] = OptNone \/ self[c].n <= upper[c][1].n)
        /\ (lower = ScenarioLower /\ upper = ScenarioUpper) =>
              /\ self = Vector_new(<<3, 10, -2>>) => output = FALSE
              /\ self = Vector_new(<<3, 4, -2>>) => output = TRUE

\* A vector that passes with a coordinate on its lower bound, one on its upper
\* bound and one with neither bound.
C7_Witness ==
    /\ pc = "check" /\ output = TRUE
    /\ \E c \in Idx : lower[c] = Some(self[c])
    /\ \E c \in Idx : upper[c] = Some(self[c])
    /\ \E c \in Idx : lower[c] = OptNone /\ upper[c] = OptNone

=============================================================================
